---- MODULE Spec2Model ----
(***************************************************************************)
(* Model of the AutomaticClozeCards add-on: the module-level configuration *)
(* (change_logic.py), the cloze detector, the add-note conversion hook,    *)
(* the Note.fields_check wrapper, the editor hook and the configuration    *)
(* dialog (config_dialog.py).                                              *)
(***************************************************************************)
EXTENDS Integers, Sequences, FiniteSets, TLC

VARIABLES
    source_model_ids,   \* change_logic.py global: list of source note type ids
    target_model_id,    \* change_logic.py global: target note type id or None
    stored,             \* the add-on configuration the host keeps on disk
    note,               \* the note object handed to the hook under study
    orig,               \* the same note as the host handed it over (history)
    flushed,            \* number of note.flush() calls on the note
    delivered,          \* number of add-note callbacks run on the note
    chunks,             \* number of text chunks typed into the note (detector runs)
    detected,           \* last value returned by contains_cloze
    fc,                 \* the last Note.fields_check call through the wrapper
    ANKI_VERSION_TUPLE, \* the host's version, split at the dots
    evals,              \* scripts handed to editor.web.eval in the last editor event
    dlg,                \* show_config_dialog: "closed" (never run), "open" (inside
                        \* exec()), "accepted" or "rejected" (what exec() returned)
    dlg_config,         \* ConfigDialog.config
    dlg_target_model_id,\* ConfigDialog.target_model_id
    target_combo,       \* item data of target_combo's current item
    source_widgets,     \* ConfigDialog.source_widgets: the rows and their combo boxes
    add_button,         \* whether the 'Add Source Note Type' button is enabled
    timer,              \* the zero-delay timer that runs _load_sources
    lastWrite,          \* writeConfig calls of this dialog and the last one's argument
    lastSave,           \* how save_config ended when it was the last thing to happen
    lastTarget,         \* the user's change of target_combo while source rows
                        \* existed and the answer to askUser, when that was the
                        \* last thing to happen
    Note_fields_check,  \* the host's class attribute Note.fields_check
    _fields_check_original_auto_cloze,  \* the attribute of that name of class Note
    Editor_onCloze,     \* Editor._onCloze: the wrappers around the host's method,
                        \* outermost first
    _onCloze_wrapped_by_auto_cloze,     \* the attribute of that name of class Editor
    _original_fields_check, \* the global of that name of every namespace the
                            \* module's code has been executed in
    addMode,            \* the editor's attribute addMode: "missing", "True", "False"
    type_entry,         \* the 'type' entry of the dict of the editor note's note type
    cloze               \* the last call of Editor._onCloze

cfgVars == <<source_model_ids, target_model_id, stored>>
noteVars == <<note, orig, flushed, delivered>>
detVars == <<chunks, detected>>
hostVars == <<fc, ANKI_VERSION_TUPLE, evals>>
dlgVars == <<dlg, dlg_config, dlg_target_model_id, target_combo, source_widgets,
             add_button, timer, lastWrite, lastSave, lastTarget>>

dlgVarsButLastSave == <<dlg, dlg_config, dlg_target_model_id, target_combo,
                        source_widgets, add_button, timer, lastWrite>>

clozeVars == <<addMode, type_entry, cloze>>

patchVars == <<Note_fields_check, _fields_check_original_auto_cloze, Editor_onCloze,
               _onCloze_wrapped_by_auto_cloze, _original_fields_check, clozeVars>>

vars == <<cfgVars, noteVars, detVars, hostVars, dlgVars, patchVars>>

----------------------------------------------------------------------------
(* Bounds of the model *)

NumModels == 3      \* note types in the collection are 1..NumModels
MaxSaved == 2       \* longest source list of the configuration at start-up
MaxFields == 2      \* most fields of a note typed in for the detector
MaxChunks == 5      \* most text chunks of a note typed in for the detector

----------------------------------------------------------------------------
(* Values *)

None == 0

ModelIds == 1..NumModels
\* an id no note type of the collection has (a deleted note type)
DeletedId == NumModels + 1
AllIds == ModelIds \cup {DeletedId}

Str(t) == [str |-> TRUE, text |-> t]
\* a field value that is no str
NonStr == [str |-> FALSE, text |-> <<>>]

\* no Note.fields_check call has been made
NoCall == [result |-> "none", original |-> "none", calls |-> 0]

\* no writeConfig call has been made by the dialog
NoWrite == [called |-> FALSE, target |-> None, sources |-> <<>>]
\* no timer is waiting
NoTimer == [pending |-> FALSE, source_ids |-> <<>>]

NoNote == [exists |-> FALSE, mid |-> None, fields |-> <<>>, mod |-> 0, usn |-> 0]
NewNote(m, f, t, u) == [exists |-> TRUE, mid |-> m, fields |-> f, mod |-> t, usn |-> u]

\* a change of target_combo with source rows was not the last thing to happen
NoChange == [changed |-> FALSE, asked |-> FALSE, proceed |-> FALSE]

\* no configuration dialog exists
NoDialog ==
    /\ dlg = "closed"
    /\ dlg_config = [target |-> None, sources |-> <<>>]
    /\ dlg_target_model_id = None
    /\ target_combo = None
    /\ source_widgets = <<>>
    /\ add_button = FALSE
    /\ timer = NoTimer
    /\ lastWrite = NoWrite
    /\ lastSave = "none"
    /\ lastTarget = NoChange

\* Python's >= on tuples of ints
RECURSIVE TupleGE(_, _)
TupleGE(a, b) ==
    IF b = <<>> THEN TRUE
    ELSE IF a = <<>> THEN FALSE
    ELSE IF Head(a) > Head(b) THEN TRUE
    ELSE IF Head(a) < Head(b) THEN FALSE
    ELSE TupleGE(Tail(a), Tail(b))

----------------------------------------------------------------------------
(* The patches the module's code applies to the host's classes when it is
   executed (change_logic.py lines 253-424) *)

MaxLoads == 3       \* most namespaces the module's code is executed in, in one host process

\* the value of a name that may be None or hold a method
Unset == [bound |-> FALSE, wrapper |-> FALSE, ns |-> 0]
\* the method the host defines
HostMethod == [bound |-> TRUE, wrapper |-> FALSE, ns |-> 0]
\* the function wrapped_fields_check defined in namespace ns: it reads the
\* global _original_fields_check of that namespace when it is called
Wrapper(ns) == [bound |-> TRUE, wrapper |-> TRUE, ns |-> ns]

\* the host's classes before any add-on is loaded
Pristine == [fields_check |-> HostMethod, fields_check_marker |-> Unset,
             onCloze |-> <<>>, onCloze_marker |-> FALSE, originals |-> <<>>]

\* the classes and namespaces as the variables hold them
Host == [fields_check |-> Note_fields_check,
         fields_check_marker |-> _fields_check_original_auto_cloze,
         onCloze |-> Editor_onCloze,
         onCloze_marker |-> _onCloze_wrapped_by_auto_cloze,
         originals |-> _original_fields_check]

SetHost(h) ==
    /\ Note_fields_check' = h.fields_check
    /\ _fields_check_original_auto_cloze' = h.fields_check_marker
    /\ Editor_onCloze' = h.onCloze
    /\ _onCloze_wrapped_by_auto_cloze' = h.onCloze_marker
    /\ _original_fields_check' = h.originals

\* lines 72-77: the import of NoteFieldsCheckResult succeeds on hosts from 2.1.45
NoteFieldsCheckResult(v) == TupleGE(v, <<2, 1, 45>>)
\* line 303, hasattr(Note, 'fields_check'): the host has the method from 2.1.45
HasFieldsCheck(v) == TupleGE(v, <<2, 1, 45>>)

\* lines 344-353 and 412-421: Editor._onCloze is wrapped with new unless the
\* marker is there (every host has Editor._onCloze, and wrap() returns)
WrapOnCloze(h, new) ==
    IF ~h.onCloze_marker
    THEN [h EXCEPT !.onCloze = <<new>> \o @, !.onCloze_marker = TRUE]
    ELSE h

\* lines 253-424 executed in namespace ns on a host of version v; ns is a
\* namespace that exists (a reload in place) or the next one (a fresh import)
ExecModule(h, ns, v) ==
    LET fresh == ns > Len(h.originals)
        \* line 253: _original_fields_check = None
        h1 == [h EXCEPT !.originals = IF fresh THEN Append(@, Unset)
                                      ELSE [@ EXCEPT ![ns] = Unset]]
    IN  IF NoteFieldsCheckResult(v)
        THEN IF HasFieldsCheck(v) /\ ~h1.fields_check_marker.bound
             THEN [h1 EXCEPT !.originals[ns] = h1.fields_check,
                             !.fields_check_marker = h1.fields_check,
                             !.fields_check = Wrapper(ns)]
             ELSE h1
        ELSE IF TupleGE(v, <<2, 1, 40>>)
        THEN WrapOnCloze(h1, "_onClozeNew_40")
        ELSE WrapOnCloze(h1, "_onClozeNew_old")

\* a key a dict does not have
NoEntry == [present |-> FALSE, value |-> 0]
Entry(v) == [present |-> TRUE, value |-> v]

\* Editor._onCloze has not been called
NoClozeCall == [called |-> FALSE, before |-> NoEntry, old_calls |-> 0,
                old_saw |-> NoEntry, raised |-> FALSE]

\* no editor is open
NoEditor ==
    /\ addMode = "missing"
    /\ type_entry = NoEntry
    /\ cloze = NoClozeCall

\* the module has been loaded once into the host
ModuleLoaded ==
    LET h == ExecModule(Pristine, 1, ANKI_VERSION_TUPLE)
    IN  /\ Note_fields_check = h.fields_check
        /\ _fields_check_original_auto_cloze = h.fields_check_marker
        /\ Editor_onCloze = h.onCloze
        /\ _onCloze_wrapped_by_auto_cloze = h.onCloze_marker
        /\ _original_fields_check = h.originals

\* the wrappers a call of method f passes before the host's method runs, or
\* -1 when it never runs: wrapped_fields_check calls _original_fields_check of
\* its namespace, or Note.fields_check (lines 265-274) when that is None,
\* which is how the call came to the wrapper
RECURSIVE LayersTo(_, _, _)
LayersTo(f, originals, n) ==
    IF ~f.bound THEN -1
    ELSE IF ~f.wrapper THEN n
    ELSE IF n >= Len(originals) THEN -1
    ELSE LayersTo(originals[f.ns], originals, n + 1)

\* wrapper layers between Note.fields_check and the host's method
FieldsCheckLayers == LayersTo(Note_fields_check, _original_fields_check, 0)

----------------------------------------------------------------------------
(* Cloze detection: CLOZE_RE = \{\{c\d+::.*?\}\} searched with re.DOTALL *)

IsDigit(ch) == ch \in {"0", "1", "2", "3", "4", "5", "6", "7", "8", "9"}

At(s, p) == IF p >= 1 /\ p <= Len(s) THEN s[p] ELSE "EOS"

\* '.' without re.DOTALL does not match a line break
DotMatches_NoDotall(ch) == ch # "\n"
\* '.' under flags=re.DOTALL matches every character
DotMatches(ch) == TRUE

\* \d+ is greedy: the position after the longest run of digits from p
RECURSIVE DigitRunEnd(_, _)
DigitRunEnd(s, p) ==
    IF IsDigit(At(s, p)) THEN DigitRunEnd(s, p + 1) ELSE p

\* .*?\}\} is lazy: try to close at p, else consume one character and retry
RECURSIVE LazyClose(_, _)
LazyClose(s, p) ==
    IF At(s, p) = "}" /\ At(s, p + 1) = "}" THEN TRUE
    ELSE IF p <= Len(s) /\ DotMatches(s[p]) THEN LazyClose(s, p + 1)
    ELSE FALSE

\* the pattern anchored at position i; \d+ gives digits back down to one
MatchAt(s, i) ==
    /\ At(s, i) = "{" /\ At(s, i + 1) = "{" /\ At(s, i + 2) = "c"
    /\ LET e == DigitRunEnd(s, i + 3)
       IN  \E k \in (i + 4)..e :
              /\ At(s, k) = ":" /\ At(s, k + 1) = ":"
              /\ LazyClose(s, k + 2)

\* re.search(CLOZE_RE, s, flags=re.DOTALL) is not None
re_search_CLOZE_RE(s) == \E i \in 1..Len(s) : MatchAt(s, i)

contains_cloze(n) ==
    IF ~n.exists \/ n.fields = <<>> THEN FALSE
    ELSE \E i \in 1..Len(n.fields) :
            n.fields[i].str /\ re_search_CLOZE_RE(n.fields[i].text)

----------------------------------------------------------------------------
(* The detector on notes typed in chunk by chunk *)

Chunks == { <<"{", "{", "c">>, <<"1">>, <<":", ":">>, <<"\n">>, <<"}", "}">> }

InitDetect ==
    /\ source_model_ids = <<>>
    /\ target_model_id = None
    /\ stored = [target |-> None, sources |-> <<>>]
    /\ note \in {NoNote, NewNote(1, <<>>, 0, 0)}
    /\ orig = NoNote
    /\ flushed = 0
    /\ delivered = 0
    /\ chunks = 0
    /\ detected = contains_cloze(note)
    /\ fc = NoCall
    /\ ANKI_VERSION_TUPLE = <<2, 1, 54>>
    /\ evals = <<>>
    /\ NoDialog
    /\ ModuleLoaded
    /\ NoEditor

\* a further field, a str or not, is given to the note
AddField ==
    /\ note.exists
    /\ Len(note.fields) < MaxFields
    /\ \E f \in {Str(<<>>), NonStr} :
          note' = [note EXCEPT !.fields = Append(@, f)]
    /\ detected' = contains_cloze(note')
    /\ UNCHANGED <<cfgVars, orig, flushed, delivered, chunks, hostVars, dlgVars, patchVars>>

\* a chunk of text is typed at the end of the last field
TypeChunk ==
    /\ note.exists
    /\ note.fields # <<>>
    /\ note.fields[Len(note.fields)].str
    /\ chunks < MaxChunks
    /\ \E c \in Chunks :
          note' = [note EXCEPT !.fields[Len(note.fields)].text = @ \o c]
    /\ chunks' = chunks + 1
    /\ detected' = contains_cloze(note')
    /\ UNCHANGED <<cfgVars, orig, flushed, delivered, hostVars, dlgVars, patchVars>>

NextDetect == AddField \/ TypeChunk

SpecDetect == InitDetect /\ [][NextDetect]_vars

\* a substring {{c<digits>::<any text>}} starts somewhere in s
HasClozeSubstring(s) ==
    \E i \in 1..Len(s) : \E j \in (i + 4)..Len(s) : \E k \in (j + 2)..Len(s) :
        /\ SubSeq(s, i, i + 2) = <<"{", "{", "c">>
        /\ \A p \in (i + 3)..(j - 1) : IsDigit(s[p])
        /\ SubSeq(s, j, j + 1) = <<":", ":">>
        /\ k + 1 <= Len(s)
        /\ SubSeq(s, k, k + 1) = <<"}", "}">>

\* C10: contains_cloze returns True exactly when some str field of an
\* existing note holds a substring {{c<digits>::<any text>}}, the text
\* possibly running over line breaks; False for a missing note, for a note
\* without fields and when no field matches; the result is always a boolean.
C10_ContainsClozeIff ==
    /\ detected \in BOOLEAN
    /\ detected = ( /\ note.exists
                    /\ \E i \in 1..Len(note.fields) :
                          /\ note.fields[i].str
                          /\ HasClozeSubstring(note.fields[i].text) )

\* a cloze whose text holds a line break has been typed and detected
C10_Witness ==
    /\ detected
    /\ \E i \in 1..Len(note.fields) :
          note.fields[i] = Str(<<"{", "{", "c", "1", ":", ":", "\n", "}", "}">>)

----------------------------------------------------------------------------
(* The collection and the configuration loaded when the module is imported *)

\* model m of the collection defines m fields
FieldCount(m) == m

\* mw.col.models.get(id): the note type dict, or None when there is none
models_get(id) ==
    IF id \in ModelIds THEN [found |-> TRUE, id |-> id, flds |-> FieldCount(id)]
    ELSE [found |-> FALSE, id |-> None, flds |-> 0]

\* note.note_type() is col.models.get(note.mid)
note_type(n) == models_get(n.mid)

\* sequences over S no longer than n
SeqsUpTo(S, n) == UNION { [1..k -> S] : k \in 0..n }

\* what the configuration on disk may hold when the add-on starts: any
\* target entry and any short list of source entries, stale ones included
StartConfigs ==
    { [target |-> t, sources |-> s] :
        t \in AllIds \cup {None}, s \in SeqsUpTo(AllIds \cup {None}, MaxSaved) }

\* [int(mid) for mid in config.get(CONFIG_KEY_SOURCE_MODELS, []) if mid is not None]
LoadSources(cfg) == SelectSeq(cfg.sources, LAMBDA m : m # None)

\* int(_raw_target_id) if _raw_target_id is not None else None
LoadTarget(cfg) == cfg.target

InList(x, l) == \E i \in 1..Len(l) : l[i] = x

InitConfig ==
    /\ stored \in StartConfigs
    /\ source_model_ids = LoadSources(stored)
    /\ target_model_id = LoadTarget(stored)

----------------------------------------------------------------------------
(* on_add_note_change_type, the add-note callback *)

Plain == <<"x">>
Cloze == <<"{", "{", "c", "1", ":", ":", "x", "}", "}">>

\* int(time.time()) at the conversion; a note is created at time 1
Times == {1, 2}
\* mw.col.usn() at the conversion; a note is created with usn 0
Usns == {-1, 0}

\* the fields a note of type m has: as many as its type defines (a note of a
\* note type that is gone keeps one field)
NoteFieldCount(m) == IF m \in ModelIds THEN FieldCount(m) ELSE 1

\* the notes the host can hand over: each field a str, plain or with a cloze
HostNotes ==
    UNION { { NewNote(m, f, 1, 0) : f \in [1..NoteFieldCount(m) -> {Str(Plain), Str(Cloze)}] } :
            m \in AllIds }

\* the checks of lines 139-148: a configuration is there and the note's type
\* resolves to one of the source types
IsSourceNote_AnyType(n) ==
    /\ source_model_ids # <<>>
    /\ target_model_id # None
IsSourceNote(n) ==
    /\ source_model_ids # <<>>
    /\ target_model_id # None
    /\ note_type(n).found
    /\ InList(note_type(n).id, source_model_ids)

\* the checks without the return for a note that has the target type already
NeedsConversion_NoSameTypeCheck(n) ==
    /\ contains_cloze(n)
    /\ models_get(target_model_id).found
\* the checks of lines 150-159: cloze markup, a target that resolves and that
\* is not the note's type already
NeedsConversion(n) ==
    /\ contains_cloze(n)
    /\ models_get(target_model_id).found
    /\ n.mid # target_model_id

Min(a, b) == IF a < b THEN a ELSE b

\* new_fields with the loop copying one field too few
RemapFields_OffByOne(old_fields, new_field_count) ==
    [i \in 1..new_field_count |->
        IF i < Min(Len(old_fields), new_field_count) THEN old_fields[i]
        ELSE Str(<<>>)]
\* new_fields = [""] * new_field_count, then the first copy_len fields copied
RemapFields(old_fields, new_field_count) ==
    [i \in 1..new_field_count |->
        IF i <= Min(Len(old_fields), new_field_count) THEN old_fields[i]
        ELSE Str(<<>>)]

\* the conversion with the assignment to note.mid left out
Converted_KeepsMid(n, t, u) ==
    [n EXCEPT !.fields = RemapFields(n.fields, models_get(target_model_id).flds),
              !.mod = t,
              !.usn = u]
\* lines 163-177: the note as converted at time t under collection usn u
Converted(n, t, u) ==
    [n EXCEPT !.mid = target_model_id,
              !.fields = RemapFields(n.fields, models_get(target_model_id).flds),
              !.mod = t,
              !.usn = u]

MaxDeliver == 2

\* the host adds a note and is about to run the add-note hook on it
HostAddsNote ==
    /\ \E n \in HostNotes :
          /\ note' = n
          /\ orig' = n
    /\ flushed' = 0
    /\ delivered' = 0
    /\ UNCHANGED <<cfgVars, detVars, hostVars, dlgVars, patchVars>>

on_add_note_change_type ==
    /\ note.exists
    /\ delivered < MaxDeliver
    /\ delivered' = delivered + 1
    /\ IF IsSourceNote(note) /\ NeedsConversion(note)
       THEN /\ \E t \in Times, u \in Usns : note' = Converted(note, t, u)
            /\ flushed' = flushed + 1
       ELSE UNCHANGED <<note, flushed>>
    /\ UNCHANGED <<cfgVars, orig, detVars, hostVars, dlgVars, patchVars>>

InitAdd ==
    /\ InitConfig
    /\ note = NoNote
    /\ orig = NoNote
    /\ flushed = 0
    /\ delivered = 0
    /\ chunks = 0
    /\ detected = FALSE
    /\ fc = NoCall
    /\ ANKI_VERSION_TUPLE = <<2, 1, 54>>
    /\ evals = <<>>
    /\ NoDialog
    /\ ModuleLoaded
    /\ NoEditor

NextAdd == HostAddsNote \/ on_add_note_change_type

SpecAdd == InitAdd /\ [][NextAdd]_vars


\* the callback has run once on the note the host handed over
RanOnce == orig.exists /\ delivered = 1

\* C1: a note whose note type is one of source_model_ids, with cloze markup in
\* some field, under a target_model_id that resolves to a note type other
\* than the note's, has mid = target_model_id after the callback and has been
\* flushed exactly once.
C1_ConvertsSourceClozeNote ==
    ( /\ RanOnce
      /\ note_type(orig).found
      /\ InList(note_type(orig).id, source_model_ids)
      /\ contains_cloze(orig)
      /\ target_model_id # None
      /\ models_get(target_model_id).found
      /\ orig.mid # target_model_id )
    => (note.mid = target_model_id /\ flushed = 1)

\* a source note with cloze markup has changed its type and been saved once
C1_Witness ==
    /\ RanOnce
    /\ InList(orig.mid, source_model_ids)
    /\ contains_cloze(orig)
    /\ orig.mid # target_model_id
    /\ note.mid = target_model_id
    /\ note.mid \in ModelIds
    /\ flushed = 1

\* C2: the converted note has as many fields as the target type defines; the
\* fields below min(old count, target count) are the old ones, every other
\* new field is the empty string, and old fields from the target count on
\* are gone.
C2_FieldsRemappedPositionally ==
    (RanOnce /\ flushed = 1) =>
        LET n == models_get(target_model_id).flds
            old == orig.fields
        IN  /\ Len(note.fields) = n
            /\ \A i \in 1..Len(note.fields) :
                  IF i <= Len(old) /\ i <= n
                  THEN note.fields[i] = old[i]
                  ELSE note.fields[i] = Str(<<>>)
            /\ \A i \in 1..Len(old) : i > n => i \notin DOMAIN note.fields

\* a conversion to a type with more fields: the old fields kept, the rest empty
C2_Witness ==
    /\ RanOnce /\ flushed = 1
    /\ Len(orig.fields) >= 2
    /\ Len(note.fields) > Len(orig.fields)
    /\ note.fields[2] = orig.fields[2]
    /\ orig.fields[2] = Str(Cloze)
    /\ note.fields[Len(note.fields)] = Str(<<>>)

\* C3: the callback leaves the note as it was (mid, fields, mod, usn) and
\* does not flush it when source_model_ids is empty, or target_model_id is
\* None, or the note's type id is not among the sources, or no field holds
\* cloze markup, or the target id resolves to no note type, or the note's
\* type is the target already.
C3_LeavesOtherNotesAlone ==
    ( /\ RanOnce
      /\ \/ source_model_ids = <<>>
         \/ target_model_id = None
         \/ ~InList(orig.mid, source_model_ids)
         \/ ~contains_cloze(orig)
         \/ ~models_get(target_model_id).found
         \/ orig.mid = target_model_id )
    => (note = orig /\ flushed = 0)

\* a source note with cloze markup stays as it is: the target type is gone
C3_Witness ==
    /\ RanOnce
    /\ InList(orig.mid, source_model_ids)
    /\ orig.mid \in ModelIds
    /\ contains_cloze(orig)
    /\ target_model_id = DeletedId
    /\ note = orig
    /\ flushed = 0


\* C14: the callback is idempotent. A delivery of a note that an earlier
\* delivery converted leaves the note (type, fields, mod, usn) as it is and
\* does not flush, under every configuration, also one whose target is among
\* source_model_ids; so no note is converted, and its fields cut or filled
\* up, more than once.
C14_ConversionIsIdempotent ==
    [][ /\ flushed' <= 1
        /\ (note.exists /\ flushed >= 1 /\ delivered' = delivered + 1)
              => (note' = note /\ flushed' = flushed) ]_vars

\* a note converted by the first delivery to a target that is also a source
\* has been delivered again, still holding cloze markup
C14_Witness ==
    /\ delivered = 2
    /\ flushed = 1
    /\ InList(target_model_id, source_model_ids)
    /\ orig.mid # target_model_id
    /\ note.mid = target_model_id
    /\ contains_cloze(note)
    /\ Len(note.fields) # Len(orig.fields)

----------------------------------------------------------------------------
(* wrapped_fields_check, the wrapper installed as Note.fields_check *)

\* NoteFieldsCheckResult
CheckResults == {"NORMAL", "EMPTY", "DUPLICATE", "MISSING_CLOZE",
                 "NOTETYPE_NOT_CLOZE", "FIELD_NOT_CLOZE"}

\* what the host's own fields_check does on a call: a result, or an exception
OriginalOutcomes == CheckResults \cup {"raise"}

\* the test for a cloze error with FIELD_NOT_CLOZE forgotten
IsClozeRelatedError_OneKind(r) == r = "NOTETYPE_NOT_CLOZE"
\* lines 285-288
IsClozeRelatedError(r) == r = "NOTETYPE_NOT_CLOZE" \/ r = "FIELD_NOT_CLOZE"

\* the suppression without the look at the fields
Suppresses_NoSyntaxCheck(n, r) ==
    /\ InList(note_type(n).id, source_model_ids)
    /\ IsClozeRelatedError(r)
\* lines 283-292: is_source_model and is_cloze_related_error and has_cloze_syntax
Suppresses(n, r) ==
    /\ InList(note_type(n).id, source_model_ids)
    /\ IsClozeRelatedError(r)
    /\ contains_cloze(n)

\* the value wrapped_fields_check returns for note n when the original check
\* ends with outcome o
WrappedResult(n, o) ==
    IF o = "raise" THEN "NORMAL"
    ELSE IF ~note_type(n).found THEN o
    ELSE IF Suppresses(n, o) THEN "NORMAL"
    ELSE o

\* the host takes a note into the add or edit window
HostOpensNote ==
    /\ \E n \in HostNotes :
          /\ note' = n
          /\ orig' = n
    /\ fc' = NoCall
    /\ UNCHANGED <<cfgVars, flushed, delivered, detVars, ANKI_VERSION_TUPLE, evals, dlgVars, patchVars>>

\* the host checks the fields of the note: one call of the wrapper, which
\* calls the original check once
wrapped_fields_check ==
    /\ note.exists
    /\ \E o \in OriginalOutcomes :
          fc' = [result |-> WrappedResult(note, o), original |-> o, calls |-> 1]
    /\ UNCHANGED <<cfgVars, noteVars, detVars, ANKI_VERSION_TUPLE, evals, dlgVars, patchVars>>

InitCheck == InitAdd

NextCheck == HostOpensNote \/ wrapped_fields_check

SpecCheck == InitCheck /\ [][NextCheck]_vars

\* C4: the wrapper returns NORMAL when the original check returns
\* NOTETYPE_NOT_CLOZE or FIELD_NOT_CLOZE for a note whose note type is one of
\* source_model_ids and that holds cloze markup in some field.
C4_SuppressesClozeError ==
    ( /\ fc.original \in {"NOTETYPE_NOT_CLOZE", "FIELD_NOT_CLOZE"}
      /\ note_type(note).found
      /\ InList(note_type(note).id, source_model_ids)
      /\ contains_cloze(note) )
    => fc.result = "NORMAL"

\* a FIELD_NOT_CLOZE of the host has been turned into NORMAL
C4_Witness ==
    /\ fc.original = "FIELD_NOT_CLOZE"
    /\ fc.result = "NORMAL"
    /\ InList(note.mid, source_model_ids)
    /\ contains_cloze(note)

----------------------------------------------------------------------------
(* show_cloze_button_if_source, the editor_did_load_note hook *)

\* host versions the add-on may be loaded into
OldVersions == { <<2, 1, 35>>, <<2, 1, 44>> }
Versions45 == { <<2, 1, 45>>, <<2, 1, 49>> }
Versions50 == { <<2, 1, 50>>, <<2, 1, 51>> }
Versions52 == { <<2, 1, 52>>, <<2, 1, 66>>, <<23, 10>>, <<24, 6, 3>> }
Versions == OldVersions \cup Versions45 \cup Versions50 \cup Versions52

\* the three branches written as separate ifs: each that applies is evaluated
ScriptsFor_SeparateIfs(v) ==
    (IF TupleGE(v, <<2, 1, 52>>) THEN <<"toolbar.toolbar.show">> ELSE <<>>)
    \o (IF TupleGE(v, <<2, 1, 50>>) THEN <<"toolbar.templateButtons.show">> ELSE <<>>)
    \o (IF TupleGE(v, <<2, 1, 45>>) THEN <<"templateButtons.showButton">> ELSE <<>>)
\* lines 211-245: the scripts handed to editor.web.eval under version v
ScriptsFor(v) ==
    IF TupleGE(v, <<2, 1, 52>>) THEN <<"toolbar.toolbar.show">>
    ELSE IF TupleGE(v, <<2, 1, 50>>) THEN <<"toolbar.templateButtons.show">>
    ELSE IF TupleGE(v, <<2, 1, 45>>) THEN <<"templateButtons.showButton">>
    ELSE <<>>

\* lines 198-207: the editor shows a note of a source type
EditorShowsSource(n) ==
    /\ source_model_ids # <<>>
    /\ n.exists
    /\ note_type(n).found
    /\ InList(note_type(n).id, source_model_ids)

\* the notes an editor may show: the hook reads the note's type alone
EditorNotes ==
    { NewNote(m, [i \in 1..NoteFieldCount(m) |-> Str(Plain)], 1, 0) : m \in AllIds }

\* the editor has loaded a note, or has none
show_cloze_button_if_source ==
    /\ \E n \in EditorNotes \cup {NoNote} :
          /\ note' = n
          /\ orig' = n
          /\ evals' = IF EditorShowsSource(n) THEN ScriptsFor(ANKI_VERSION_TUPLE)
                      ELSE <<>>
    /\ UNCHANGED <<cfgVars, flushed, delivered, detVars, fc, ANKI_VERSION_TUPLE, dlgVars, patchVars>>

InitEditor ==
    /\ InitConfig
    /\ note = NoNote
    /\ orig = NoNote
    /\ flushed = 0
    /\ delivered = 0
    /\ chunks = 0
    /\ detected = FALSE
    /\ fc = NoCall
    /\ ANKI_VERSION_TUPLE \in Versions
    /\ evals = <<>>
    /\ NoDialog
    /\ ModuleLoaded
    /\ NoEditor

NextEditor == show_cloze_button_if_source

SpecEditor == InitEditor /\ [][NextEditor]_vars

\* C6: a script is evaluated only when source_model_ids is not empty and the
\* editor's note type id is among them; then at most one script per event, the
\* one of the host's version range (>= 2.1.52, 2.1.50-51, 2.1.45-49); none
\* below 2.1.45 and none for a note type that is no source.
C6_ShowsClozeButtonForSources ==
    /\ Len(evals) <= 1
    /\ evals # <<>> =>
          /\ source_model_ids # <<>>
          /\ note.exists
          /\ InList(note.mid, source_model_ids)
          /\ ANKI_VERSION_TUPLE \in Versions52 => evals[1] = "toolbar.toolbar.show"
          /\ ANKI_VERSION_TUPLE \in Versions50 => evals[1] = "toolbar.templateButtons.show"
          /\ ANKI_VERSION_TUPLE \in Versions45 => evals[1] = "templateButtons.showButton"
    /\ ANKI_VERSION_TUPLE \in OldVersions => evals = <<>>
    /\ (note.exists /\ ~InList(note.mid, source_model_ids)) => evals = <<>>

\* on a 2.1.50 host the editor of a source note got the 2.1.50 script
C6_Witness ==
    /\ ANKI_VERSION_TUPLE = <<2, 1, 50>>
    /\ note.exists
    /\ InList(note.mid, source_model_ids)
    /\ evals = <<"toolbar.templateButtons.show">>


----------------------------------------------------------------------------
(* ConfigDialog (config_dialog.py) *)

MaxRows == 2        \* most source rows the user adds by the button
MaxLoaded == 1      \* longest source list on disk when the dialog is studied

\* the dialog object: its config dict, target_model_id, the current item data
\* of target_combo, source_widgets and the enabled flag of add_button
Dialog == [config |-> dlg_config, target |-> dlg_target_model_id,
           combo |-> target_combo, rows |-> source_widgets, add |-> add_button]

SetDialog(d) ==
    /\ dlg_config' = d.config
    /\ dlg_target_model_id' = d.target
    /\ target_combo' = d.combo
    /\ source_widgets' = d.rows
    /\ add_button' = d.add

\* the list without the exclusion of the target
get_available_source_models_WithTarget(t) ==
    IF t = None THEN {} ELSE ModelIds
\* the note types a source row offers under target t
get_available_source_models(t) ==
    IF t = None THEN {} ELSE ModelIds \ {t}

clear_all_sources(d) == [d EXCEPT !.rows = <<>>]

remove_source_ui(d, i) ==
    [d EXCEPT !.rows = SubSeq(@, 1, i - 1) \o SubSeq(@, i + 1, Len(@))]

\* whether target_model_selected puts its question to the user
AsksUser(d, selected_id) ==
    selected_id # d.target /\ selected_id # None /\ d.rows # <<>>

\* the handler without the revert of the combo box on a declined question
target_model_selected_NoRevert(d, selected_id, proceed) ==
    IF selected_id = d.target THEN d
    ELSE IF selected_id # None /\ d.rows # <<>> /\ ~proceed
    THEN d
    ELSE IF selected_id # None
    THEN [d EXCEPT !.target = selected_id,
                   !.add = TRUE,
                   !.rows = IF d.target # None /\ d.target # selected_id
                            THEN <<>> ELSE @]
    ELSE [d EXCEPT !.target = None, !.add = FALSE, !.rows = <<>>]
\* the currentIndexChanged handler of target_combo, the combo box showing
\* selected_id already; proceed is the user's answer should askUser be shown
target_model_selected(d, selected_id, proceed) ==
    IF selected_id = d.target THEN d
    ELSE IF selected_id # None /\ d.rows # <<>> /\ ~proceed
    THEN [d EXCEPT !.combo = d.target]
    ELSE IF selected_id # None
    THEN [d EXCEPT !.target = selected_id,
                   !.add = TRUE,
                   !.rows = IF d.target # None /\ d.target # selected_id
                            THEN <<>> ELSE @]
    ELSE [d EXCEPT !.target = None, !.add = FALSE, !.rows = <<>>]

\* a new row; source_id_to_select is None for a click on the button
add_source_ui(d, source_id_to_select) ==
    LET available_sources == get_available_source_models(d.target)
    IN  IF d.target = None \/ available_sources = {} THEN d
        ELSE IF source_id_to_select = None
        THEN [d EXCEPT !.rows = Append(@, [items |-> available_sources, sel |-> None])]
        ELSE IF source_id_to_select \in available_sources
        THEN [d EXCEPT !.rows = Append(@, [items |-> available_sources,
                                            sel |-> source_id_to_select])]
        ELSE d

\* the loop of _load_sources over the saved source ids
RECURSIVE LoadRows(_, _)
LoadRows(d, source_ids) ==
    IF source_ids = <<>> THEN d
    ELSE LET source_id == Head(source_ids)
         IN  IF source_id = d.target THEN LoadRows(d, Tail(source_ids))
             ELSE IF models_get(source_id).found
             THEN LoadRows(add_source_ui(d, source_id), Tail(source_ids))
             ELSE LoadRows(d, Tail(source_ids))

_load_sources(d, source_ids) ==
    IF d.target = None
    THEN [d EXCEPT !.config.sources = <<>>]
    ELSE LoadRows(clear_all_sources(d), source_ids)

\* load_config up to the start of the timer
load_config(d) ==
    LET loaded_target_id == d.config.target
    IN  IF loaded_target_id = None THEN d
        ELSE IF loaded_target_id \in ModelIds
        THEN target_model_selected([d EXCEPT !.combo = loaded_target_id],
                                   loaded_target_id, TRUE)
        ELSE [d EXCEPT !.config.target = None]

\* the validation without the test for a source selected twice
RECURSIVE ValidateRows_NoDuplicateTest(_, _, _)
ValidateRows_NoDuplicateTest(rows, current_target_id, selected_source_ids) ==
    IF rows = <<>> THEN [valid |-> TRUE, ids |-> selected_source_ids]
    ELSE LET source_id == Head(rows).sel
         IN  IF source_id = None \/ source_id = current_target_id
             THEN [valid |-> FALSE, ids |-> selected_source_ids]
             ELSE ValidateRows_NoDuplicateTest(Tail(rows), current_target_id,
                                               Append(selected_source_ids, source_id))
\* the loop of save_config over the rows: it stops at the first row that is
\* empty, selects the target or repeats an earlier source
RECURSIVE ValidateRows(_, _, _)
ValidateRows(rows, current_target_id, selected_source_ids) ==
    IF rows = <<>> THEN [valid |-> TRUE, ids |-> selected_source_ids]
    ELSE LET source_id == Head(rows).sel
         IN  IF source_id = None
                \/ source_id = current_target_id
                \/ InList(source_id, selected_source_ids)
             THEN [valid |-> FALSE, ids |-> selected_source_ids]
             ELSE ValidateRows(Tail(rows), current_target_id,
                               Append(selected_source_ids, source_id))

\* saving without the test that some source is selected
Saveable_EmptyListAllowed(d) ==
    /\ d.combo # None
    /\ ValidateRows(d.rows, d.combo, <<>>).valid
\* whether save_config gets as far as writing
Saveable(d) ==
    /\ d.combo # None
    /\ ValidateRows(d.rows, d.combo, <<>>).valid
    /\ ValidateRows(d.rows, d.combo, <<>>).ids # <<>>

\* the config dict save_config writes
ConfigToSave(d) ==
    [d.config EXCEPT !.target = d.combo,
                     !.sources = ValidateRows(d.rows, d.combo, <<>>).ids]

\* the globals show_config_dialog sets whatever exec() returned
GlobalsAfterExec_Always(result, new_config) ==
    [sources |-> LoadSources(new_config), target |-> LoadTarget(new_config)]
\* lines 103-114: the globals after exec() returned result
GlobalsAfterExec(result, new_config) ==
    IF result = "accepted"
    THEN [sources |-> LoadSources(new_config), target |-> LoadTarget(new_config)]
    ELSE [sources |-> source_model_ids, target |-> target_model_id]

----------------------------------------------------------------------------
(* The dialog's events *)

\* the dialog object is dropped when show_config_dialog ends; dialog.config
\* stays behind as the module's config
DropDialog ==
    /\ dlg_target_model_id' = None
    /\ target_combo' = None
    /\ source_widgets' = <<>>
    /\ add_button' = FALSE
    /\ timer' = NoTimer

\* lines 103-114, the rest of show_config_dialog once exec() has returned
\* result with the dialog's config being new_config
AfterExec(result, new_config) ==
    /\ source_model_ids' = GlobalsAfterExec(result, new_config).sources
    /\ target_model_id' = GlobalsAfterExec(result, new_config).target
    /\ dlg' = result
    /\ DropDialog

\* show_config_dialog up to exec(): ConfigDialog() with its load_config
show_config_dialog ==
    /\ dlg # "open"
    /\ dlg' = "open"
    /\ SetDialog(load_config([config |-> stored, target |-> None, combo |-> None,
                              rows |-> <<>>, add |-> FALSE]))
    /\ timer' = [pending |-> TRUE, source_ids |-> stored.sources]
    /\ lastWrite' = NoWrite
    /\ lastSave' = "none"
    /\ lastTarget' = NoChange
    /\ UNCHANGED <<cfgVars, noteVars, detVars, hostVars, patchVars>>

\* the timer started by load_config fires
load_sources_timer ==
    /\ dlg = "open"
    /\ timer.pending
    /\ SetDialog(_load_sources(Dialog, timer.source_ids))
    /\ timer' = NoTimer
    /\ lastSave' = "none"
    /\ lastTarget' = NoChange
    /\ UNCHANGED <<cfgVars, noteVars, detVars, hostVars, patchVars, dlg, lastWrite>>

\* the user picks another item of target_combo; with noted, lastTarget keeps
\* whether rows existed and what the user answered
SelectTarget(noted) ==
    /\ dlg = "open"
    /\ \E selected_id \in ModelIds \cup {None}, proceed \in BOOLEAN :
          /\ selected_id # target_combo
          /\ SetDialog(target_model_selected([Dialog EXCEPT !.combo = selected_id],
                                             selected_id, proceed))
          /\ lastTarget' = IF noted
                           THEN [changed |-> source_widgets # <<>>,
                                 asked |-> AsksUser(Dialog, selected_id),
                                 proceed |-> AsksUser(Dialog, selected_id) /\ proceed]
                           ELSE NoChange
    /\ lastSave' = "none"
    /\ UNCHANGED <<cfgVars, noteVars, detVars, hostVars, patchVars, dlg, timer, lastWrite>>

UserSelectsTarget == SelectTarget(FALSE)

\* the same event with the user's answer kept for the record
UserAnswersTargetChange == SelectTarget(TRUE)

\* the user clicks 'Add Source Note Type'
UserAddsSource ==
    /\ dlg = "open"
    /\ add_button
    /\ Len(source_widgets) < MaxRows
    /\ SetDialog(add_source_ui(Dialog, None))
    /\ lastSave' = "none"
    /\ lastTarget' = NoChange
    /\ UNCHANGED <<cfgVars, noteVars, detVars, hostVars, patchVars, dlg, timer, lastWrite>>

\* the user picks an item in the combo box of a row
UserSelectsSource ==
    /\ dlg = "open"
    /\ \E i \in 1..Len(source_widgets) :
       \E id \in source_widgets[i].items \cup {None} :
          /\ id # source_widgets[i].sel
          /\ source_widgets' = [source_widgets EXCEPT ![i].sel = id]
    /\ lastSave' = "none"
    /\ lastTarget' = NoChange
    /\ UNCHANGED <<cfgVars, noteVars, detVars, hostVars, patchVars, dlg, dlg_config,
                   dlg_target_model_id, target_combo, add_button, timer, lastWrite>>

\* the user clicks 'Remove' in a row
UserRemovesSource ==
    /\ dlg = "open"
    /\ \E i \in 1..Len(source_widgets) : SetDialog(remove_source_ui(Dialog, i))
    /\ lastSave' = "none"
    /\ lastTarget' = NoChange
    /\ UNCHANGED <<cfgVars, noteVars, detVars, hostVars, patchVars, dlg, timer, lastWrite>>

\* the user clicks 'Save Configuration' and writeConfig, if reached,
\* returns: after accept() exec() returns and show_config_dialog runs to its end
save_config ==
    /\ dlg = "open"
    /\ IF ~Saveable(Dialog)
       THEN /\ lastSave' = "rejected"
            /\ UNCHANGED <<cfgVars, dlgVarsButLastSave>>
       ELSE /\ dlg_config' = ConfigToSave(Dialog)
            /\ lastWrite' = [called |-> TRUE,
                             target |-> dlg_config'.target,
                             sources |-> dlg_config'.sources]
            /\ stored' = dlg_config'
            /\ lastSave' = "written"
            /\ AfterExec("accepted", dlg_config')
    /\ lastTarget' = NoChange
    /\ UNCHANGED <<noteVars, detVars, hostVars, patchVars>>

\* the user clicks 'Save Configuration' and writeConfig raises: the error is
\* shown and the dialog stays open
save_config_write_fails ==
    /\ dlg = "open"
    /\ Saveable(Dialog)
    /\ dlg_config' = ConfigToSave(Dialog)
    /\ lastWrite' = [called |-> TRUE,
                     target |-> dlg_config'.target,
                     sources |-> dlg_config'.sources]
    /\ lastSave' = "failed"
    /\ lastTarget' = NoChange
    /\ UNCHANGED <<cfgVars, noteVars, detVars, hostVars, patchVars, dlg, dlg_target_model_id,
                   target_combo, source_widgets, add_button, timer>>

\* the user clicks 'Cancel' or closes the window: exec() returns and
\* show_config_dialog runs to its end
reject ==
    /\ dlg = "open"
    /\ AfterExec("rejected", dlg_config)
    /\ dlg_config' = [target |-> None, sources |-> <<>>]
    /\ lastSave' = "none"
    /\ lastTarget' = NoChange
    /\ UNCHANGED <<stored, noteVars, detVars, hostVars, patchVars, lastWrite>>

InitNoEvents ==
    /\ note = NoNote
    /\ orig = NoNote
    /\ flushed = 0
    /\ delivered = 0
    /\ chunks = 0
    /\ detected = FALSE
    /\ fc = NoCall
    /\ ANKI_VERSION_TUPLE = <<2, 1, 54>>
    /\ evals = <<>>
    /\ NoDialog
    /\ ModuleLoaded
    /\ NoEditor

\* the configuration on disk when the dialog is opened for the first time
InitDialog ==
    /\ stored \in { c \in StartConfigs : Len(c.sources) <= MaxLoaded }
    /\ source_model_ids = LoadSources(stored)
    /\ target_model_id = LoadTarget(stored)
    /\ InitNoEvents

NextDialog ==
    \/ show_config_dialog
    \/ load_sources_timer
    \/ UserSelectsTarget
    \/ UserAddsSource
    \/ UserSelectsSource
    \/ UserRemovesSource
    \/ save_config
    \/ reject

SpecDialog == InitDialog /\ [][NextDialog]_vars

\* the dialog's form without the save button, the answers to the question of
\* target_model_selected on record
NextTarget ==
    \/ show_config_dialog
    \/ load_sources_timer
    \/ UserAnswersTargetChange
    \/ UserAddsSource
    \/ UserSelectsSource
    \/ UserRemovesSource
    \/ reject

SpecTarget == InitDialog /\ [][NextTarget]_vars

\* the dialog on a profile whose writes may fail, started on a configuration
\* that names no sources yet
InitDialogIO ==
    /\ stored \in { c \in StartConfigs : c.sources = <<>> }
    /\ source_model_ids = LoadSources(stored)
    /\ target_model_id = LoadTarget(stored)
    /\ InitNoEvents

NextDialogIO == NextDialog \/ save_config_write_fails

SpecDialogIO == InitDialogIO /\ [][NextDialogIO]_vars


----------------------------------------------------------------------------
(* Claims about the dialog *)

\* what the rows select, in row order
RowSelections == [i \in 1..Len(source_widgets) |-> source_widgets[i].sel]

NoTargetSelected == target_combo = None
SomeRowEmpty == \E i \in 1..Len(source_widgets) : source_widgets[i].sel = None
SomeRowSelectsTarget ==
    \E i \in 1..Len(source_widgets) :
        source_widgets[i].sel # None /\ source_widgets[i].sel = target_combo
SomeSourceTwice ==
    \E i, j \in 1..Len(source_widgets) :
        i < j /\ source_widgets[i].sel # None
              /\ source_widgets[i].sel = source_widgets[j].sel
NoRows == source_widgets = <<>>

\* a step in which save_config has run to its end
SaveStep == dlg = "open" /\ lastSave' \in {"rejected", "written", "failed"}

\* C7: save_config rejects the save - no writeConfig call, the dialog still
\* open, its config dict as before - when no target is selected, or a row has
\* no selection, or a row selects the target, or two rows select the same
\* source, or there is no row.
C7_SaveRejectsInvalidForm ==
    [][ ( /\ SaveStep
          /\ \/ NoTargetSelected
             \/ SomeRowEmpty
             \/ SomeRowSelectsTarget
             \/ SomeSourceTwice
             \/ NoRows )
        => ( /\ lastSave' = "rejected"
             /\ lastWrite' = lastWrite
             /\ stored' = stored
             /\ dlg' = "open"
             /\ dlg_config' = dlg_config ) ]_vars

\* a save with the same source in two rows has been rejected
C7_Witness ==
    /\ dlg = "open"
    /\ lastSave = "rejected"
    /\ ~lastWrite.called
    /\ target_combo # None
    /\ Len(source_widgets) = 2
    /\ source_widgets[1].sel # None
    /\ source_widgets[1].sel = source_widgets[2].sel

NoDuplicates(l) == \A i, j \in 1..Len(l) : i # j => l[i] # l[j]

\* C8: every configuration handed to writeConfig has a target id that is not
\* None and a source list that is not empty, has no duplicates, does not hold
\* the target and lists the rows' selections in row order.
C8_WrittenConfigIsValid ==
    [][ (SaveStep /\ lastSave' # "rejected")
        => ( /\ lastWrite'.called
             /\ lastWrite'.target # None
             /\ lastWrite'.target = target_combo
             /\ lastWrite'.sources # <<>>
             /\ NoDuplicates(lastWrite'.sources)
             /\ ~InList(lastWrite'.target, lastWrite'.sources)
             /\ ~InList(None, lastWrite'.sources)
             /\ lastWrite'.sources = RowSelections
             /\ lastSave' = "written" =>
                   /\ stored'.target = lastWrite'.target
                   /\ stored'.sources = lastWrite'.sources ) ]_vars

\* two sources have been written in the order of their rows, not of their ids
C8_Witness ==
    /\ lastSave = "written"
    /\ lastWrite.called
    /\ Len(lastWrite.sources) = 2
    /\ lastWrite.sources[1] > lastWrite.sources[2]
    /\ stored.sources = lastWrite.sources
    /\ stored.target = lastWrite.target

\* C9: show_config_dialog sets source_model_ids and target_model_id exactly
\* when the dialog was accepted, and then to the configuration just written;
\* a cancelled or closed dialog and a save whose write failed leave them as
\* they were.
C9_GlobalsFollowAcceptedSave ==
    [][ IF dlg = "open" /\ dlg' = "accepted"
        THEN /\ lastSave' = "written"
             /\ source_model_ids' = lastWrite'.sources
             /\ target_model_id' = lastWrite'.target
             /\ source_model_ids' = stored'.sources
             /\ target_model_id' = stored'.target
        ELSE UNCHANGED <<source_model_ids, target_model_id>> ]_vars

\* the globals come from an accepted save; a later dialog whose write failed
\* and that was then cancelled has left them alone
C9_Witness ==
    /\ dlg = "rejected"
    /\ lastWrite.called
    /\ Len(source_model_ids) = 2
    /\ source_model_ids = stored.sources
    /\ target_model_id = stored.target
    /\ target_model_id # lastWrite.target
    /\ source_model_ids # lastWrite.sources


\* a step in which the user changed target_combo while source rows existed
TargetChangeStep == dlg = "open" /\ lastTarget'.changed /\ source_widgets # <<>>

\* C11: when the user changes the target selection while source rows exist,
\* the question is put exactly when a note type (not the placeholder) was
\* picked; on a declined question the dialog's target_model_id, the target
\* shown by the combo box and all source rows are what they were before the
\* change; otherwise (question confirmed, or target unselected) the item the
\* combo box now shows, another than before, is the target and no source row
\* is left.
C11_TargetChangeClearsOrReverts ==
    [][ TargetChangeStep
        => IF lastTarget'.asked /\ ~lastTarget'.proceed
           THEN /\ dlg_target_model_id' = dlg_target_model_id
                /\ target_combo' = target_combo
                /\ source_widgets' = source_widgets
                /\ add_button' = add_button
           ELSE /\ lastTarget'.asked = (target_combo' # None)
                /\ target_combo' # target_combo
                /\ dlg_target_model_id' = target_combo'
                /\ source_widgets' = <<>>
                /\ add_button' = (target_combo' # None) ]_vars

\* the user has declined the change to another target: a row with a selection
\* is still there under the old target
C11_Witness ==
    /\ dlg = "open"
    /\ lastTarget.changed
    /\ lastTarget.asked
    /\ ~lastTarget.proceed
    /\ source_widgets # <<>>
    /\ source_widgets[1].sel # None
    /\ dlg_target_model_id # None
    /\ target_combo = dlg_target_model_id


----------------------------------------------------------------------------
(* Loading the module more than once into one host process *)

\* the module's code is executed again in a namespace of its own: the add-on
\* is imported under another name, as when a second copy of it is installed
ImportModuleAgain ==
    /\ Len(_original_fields_check) < MaxLoads
    /\ SetHost(ExecModule(Host, Len(_original_fields_check) + 1, ANKI_VERSION_TUPLE))
    /\ source_model_ids' = LoadSources(stored)
    /\ target_model_id' = LoadTarget(stored)
    /\ UNCHANGED <<stored, noteVars, detVars, hostVars, dlgVars, clozeVars>>

\* the module's code is executed again in the namespace of an earlier
\* execution (importlib.reload): the functions defined before keep that
\* namespace as their globals
ReloadModule ==
    /\ \E ns \in 1..Len(_original_fields_check) :
          SetHost(ExecModule(Host, ns, ANKI_VERSION_TUPLE))
    /\ source_model_ids' = LoadSources(stored)
    /\ target_model_id' = LoadTarget(stored)
    /\ UNCHANGED <<stored, noteVars, detVars, hostVars, dlgVars, clozeVars>>

\* the add-on loaded once into a host of any version
InitPatch ==
    /\ InitConfig
    /\ note = NoNote
    /\ orig = NoNote
    /\ flushed = 0
    /\ delivered = 0
    /\ chunks = 0
    /\ detected = FALSE
    /\ fc = NoCall
    /\ ANKI_VERSION_TUPLE \in Versions
    /\ evals = <<>>
    /\ NoDialog
    /\ ModuleLoaded
    /\ NoEditor

NextPatch == ImportModuleAgain \/ ReloadModule

SpecPatch == InitPatch /\ [][NextPatch]_vars

\* the patch of the host's version is in place and no other
OneMechanism ==
    IF TupleGE(ANKI_VERSION_TUPLE, <<2, 1, 45>>)
    THEN Note_fields_check.wrapper /\ Editor_onCloze = <<>>
    ELSE IF TupleGE(ANKI_VERSION_TUPLE, <<2, 1, 40>>)
    THEN Note_fields_check = HostMethod /\ Editor_onCloze = <<"_onClozeNew_40">>
    ELSE Note_fields_check = HostMethod /\ Editor_onCloze = <<"_onClozeNew_old">>

\* no execution of the module's code has wrapped a wrapper
NotWrappedTwice ==
    /\ Len(Editor_onCloze) <= 1
    /\ \A ns \in 1..Len(_original_fields_check) : ~_original_fields_check[ns].wrapper
    /\ ~_fields_check_original_auto_cloze.wrapper

\* C12: however often the module is loaded, exactly one mechanism is
\* installed - the Note.fields_check wrapper where NoteFieldsCheckResult
\* exists, else the Editor._onCloze wrapper of the host's version - no method
\* is wrapped a second time, and a call of the patched method reaches the
\* host's original method through exactly one wrapper.
C12_OneWrapperLayer ==
    /\ OneMechanism
    /\ NotWrappedTwice
    /\ IF TupleGE(ANKI_VERSION_TUPLE, <<2, 1, 45>>)
       THEN FieldsCheckLayers = 1
       ELSE Len(Editor_onCloze) = 1


\* C13: while the dialog is open, after any of its operations, the 'Add
\* Source Note Type' button is enabled exactly when a target is selected (the
\* combo box showing the dialog's target_model_id), source rows exist only
\* while a target is selected, and no source row offers or has selected the
\* selected target id.
C13_DialogInvariants ==
    dlg = "open" =>
        /\ target_combo = dlg_target_model_id
        /\ add_button <=> dlg_target_model_id # None
        /\ source_widgets # <<>> => dlg_target_model_id # None
        /\ \A i \in 1..Len(source_widgets) :
              /\ dlg_target_model_id \notin source_widgets[i].items
              /\ source_widgets[i].sel # dlg_target_model_id

\* the user has moved the target away from the saved one and filled two rows;
\* the first row selects the note type that was the target before
C13_Witness ==
    /\ dlg = "open"
    /\ stored.target \in ModelIds
    /\ dlg_target_model_id \in ModelIds \ {stored.target}
    /\ add_button
    /\ Len(source_widgets) = 2
    /\ source_widgets[1].sel = stored.target
    /\ source_widgets[2].sel # None


----------------------------------------------------------------------------
(* _onClozeNew_40, the wrapper around Editor._onCloze on hosts 2.1.40-2.1.44 *)

MODEL_CLOZE == 1

\* hosts on which the module installs _onClozeNew_40
Versions40 == { <<2, 1, 40>>, <<2, 1, 44>> }

\* what hasattr(self, 'addMode') and self.addMode may find
AddModes == {"missing", "True", "False"}

\* the 'type' entry a note type dict may have: none, 0 (standard) or MODEL_CLOZE
TypeEntries == {NoEntry, Entry(0), Entry(MODEL_CLOZE)}

\* the ways the wrapped Editor._onCloze may end; it reads the note type's
\* 'type' and leaves it as it is
OldOutcomes == {"return", "raise"}

\* line 325: the editor shows a source-typed note in add mode
SourceInAddMode(n, add_mode) ==
    /\ note_type(n).found
    /\ InList(note_type(n).id, source_model_ids)
    /\ add_mode = "True"

\* the wrapper with the restore after the call instead of in a finally clause
_onClozeNew_40_NoFinally(n, add_mode, entry, old_outcome) ==
    IF ~note_type(n).found
    THEN [NoClozeCall EXCEPT !.called = TRUE, !.before = entry, !.old_saw = entry]
         @@ [after |-> entry]
    ELSE IF SourceInAddMode(n, add_mode)
    THEN LET model_type_backup == entry
             needs_restore == model_type_backup # Entry(MODEL_CLOZE)
             during == IF needs_restore THEN Entry(MODEL_CLOZE) ELSE entry
         IN  [called |-> TRUE, before |-> entry, old_calls |-> 1, old_saw |-> during,
              raised |-> old_outcome = "raise",
              after |-> IF needs_restore /\ old_outcome = "return"
                        THEN model_type_backup ELSE during]
    ELSE [called |-> TRUE, before |-> entry, old_calls |-> 1, old_saw |-> entry,
          raised |-> old_outcome = "raise", after |-> entry]
\* lines 319-342: _onClozeNew_40 run for an editor showing note n, the 'type'
\* entry of n's note type being entry and _old(self) ending as old_outcome;
\* after is the 'type' entry when the wrapper is left (model_type_backup is
\* None exactly for NoEntry: the key is then deleted again)
_onClozeNew_40(n, add_mode, entry, old_outcome) ==
    IF ~note_type(n).found
    THEN [NoClozeCall EXCEPT !.called = TRUE, !.before = entry, !.old_saw = entry]
         @@ [after |-> entry]
    ELSE IF SourceInAddMode(n, add_mode)
    THEN LET model_type_backup == entry
             needs_restore == model_type_backup # Entry(MODEL_CLOZE)
             during == IF needs_restore THEN Entry(MODEL_CLOZE) ELSE entry
         IN  [called |-> TRUE, before |-> entry, old_calls |-> 1, old_saw |-> during,
              raised |-> old_outcome = "raise",
              after |-> IF needs_restore
                        THEN IF model_type_backup.present THEN model_type_backup
                             ELSE NoEntry
                        ELSE during]
    ELSE [called |-> TRUE, before |-> entry, old_calls |-> 1, old_saw |-> entry,
          raised |-> old_outcome = "raise", after |-> entry]

\* the host opens an editor on a note, in add mode or not; a note type that
\* exists has some 'type' entry
HostOpensEditor ==
    /\ \E n \in EditorNotes :
          /\ note' = n
          /\ orig' = n
          /\ type_entry' \in IF note_type(n).found THEN TypeEntries ELSE {NoEntry}
    /\ addMode' \in AddModes
    /\ cloze' = NoClozeCall
    /\ UNCHANGED <<cfgVars, flushed, delivered, detVars, hostVars, dlgVars,
                   Note_fields_check, _fields_check_original_auto_cloze, Editor_onCloze,
                   _onCloze_wrapped_by_auto_cloze, _original_fields_check>>

\* the user asks for a cloze deletion: Editor._onCloze, which is the wrapper
\* around the host's method
Editor_onCloze_40 ==
    /\ note.exists
    /\ Editor_onCloze = <<"_onClozeNew_40">>
    /\ \E old_outcome \in OldOutcomes :
          LET r == _onClozeNew_40(note, addMode, type_entry, old_outcome)
          IN  /\ type_entry' = r.after
              /\ cloze' = [called |-> r.called, before |-> r.before,
                           old_calls |-> r.old_calls, old_saw |-> r.old_saw,
                           raised |-> r.raised]
    /\ UNCHANGED <<cfgVars, noteVars, detVars, hostVars, dlgVars, addMode,
                   Note_fields_check, _fields_check_original_auto_cloze, Editor_onCloze,
                   _onCloze_wrapped_by_auto_cloze, _original_fields_check>>

\* the add-on loaded into a 2.1.40-2.1.44 host; of the configuration only the
\* source list is read by the wrapper
InitCloze40 ==
    /\ stored \in { c \in StartConfigs : c.target = None }
    /\ source_model_ids = LoadSources(stored)
    /\ target_model_id = LoadTarget(stored)
    /\ note = NoNote
    /\ orig = NoNote
    /\ flushed = 0
    /\ delivered = 0
    /\ chunks = 0
    /\ detected = FALSE
    /\ fc = NoCall
    /\ ANKI_VERSION_TUPLE \in Versions40
    /\ evals = <<>>
    /\ NoDialog
    /\ ModuleLoaded
    /\ NoEditor

NextCloze40 == HostOpensEditor \/ Editor_onCloze_40

SpecCloze40 == InitCloze40 /\ [][NextCloze40]_vars

\* C15: on hosts 2.1.40-2.1.44, when a call of the wrapped Editor._onCloze is
\* over - returned or raised - the 'type' entry of the note's note type is
\* what it was before the call (its value, or missing if it was missing);
\* the wrapped method saw another entry than that only for a source-typed
\* note in add mode, and then it saw MODEL_CLOZE; for any other note type or
\* outside add mode the entry was the same throughout.
C15_TypeRestoredAfterCloze ==
    cloze.called =>
        /\ type_entry = cloze.before
        /\ cloze.old_saw # cloze.before
              => (SourceInAddMode(note, addMode) /\ cloze.old_saw = Entry(MODEL_CLOZE))
        /\ ~SourceInAddMode(note, addMode) => cloze.old_saw = cloze.before

\* the wrapped call raised while the note type, which has no 'type' entry,
\* was made to look like a cloze type: the entry is gone again
C15_Witness ==
    /\ cloze.called
    /\ cloze.raised
    /\ cloze.old_calls = 1
    /\ SourceInAddMode(note, addMode)
    /\ cloze.before = NoEntry
    /\ cloze.old_saw = Entry(MODEL_CLOZE)
    /\ type_entry = NoEntry

====
